---- MODULE Spec2Model ----
(***************************************************************************)
(* Model of crates/kreuzberg-ffi/src/error.rs: the ErrorCode enumeration,   *)
(* its typed accessors (name, description, from_code, is_valid), the        *)
(* extern "C" exports, and a C caller that reads the returned const char*   *)
(* up to the first zero byte.                                               *)
(*                                                                         *)
(* Strings are sequences of bytes (ASCII codes).  A &'static str is a fat   *)
(* pointer [ptr, len] into read-only static memory; as_ptr() keeps the      *)
(* address and drops the length.  Static memory is a family of allocations, *)
(* one per string literal, each holding exactly the literal's bytes: Rust   *)
(* string literals carry no terminating zero byte.  A read past the end of  *)
(* an allocation is undefined behaviour: it may find a zero byte or not.    *)
(***************************************************************************)
EXTENDS Integers, Sequences, FiniteSets, TLC

\* ---------------------------------------------------------------- state
VARIABLES
    rodata,   \* static read-only memory: address -> bytes of the allocation
    input,    \* the argument the callers pass: a u32 code or an ErrorCode variant
    call,     \* per caller: the call it made last, [op, arg]
    ret,      \* per caller: the value that call returned
    text      \* per caller: what reading the returned const char* as a C string gave

vars == <<rodata, input, call, ret, text>>

\* ---------------------------------------------------------------- bounds
\* Number of concurrent callers (threads of the host language).
NumCallers == 2

\* Integer arguments tried: 0..MaxCode, and the 99 and u32::MAX of the tests.
MaxCode == 8

\* ---------------------------------------------------------------- u32
\* A u32 is kept as two 16-bit limbs, so that every value up to u32::MAX = 2^32 - 1
\* is representable.
u32(k) == [hi |-> k \div 2^16, lo |-> k % 2^16]

U32_MAX == [hi |-> 2^16 - 1, lo |-> 2^16 - 1]

\* a <= b on u32
u32_le(a, b) == a.hi < b.hi \/ (a.hi = b.hi /\ a.lo <= b.lo)

\* a < b on u32
u32_lt(a, b) == a.hi < b.hi \/ (a.hi = b.hi /\ a.lo < b.lo)

Callers == 1..NumCallers

CodeInputs == {u32(k) : k \in 0..MaxCode} \cup {u32(99), U32_MAX}

\* ---------------------------------------------------------------- enum ErrorCode
ErrorCode == {"Validation", "Parsing", "Ocr", "MissingDependency",
              "Io", "Plugin", "UnsupportedFormat", "Internal"}

\* The discriminants with those of Io and Plugin exchanged.
AsU32_exchanged(v) ==
    CASE v = "Validation" -> u32(0)
      [] v = "Parsing" -> u32(1)
      [] v = "Ocr" -> u32(2)
      [] v = "MissingDependency" -> u32(3)
      [] v = "Io" -> u32(5)
      [] v = "Plugin" -> u32(4)
      [] v = "UnsupportedFormat" -> u32(6)
      [] v = "Internal" -> u32(7)

\* `v as u32`: the discriminants of the #[repr(u32)] enum.
AsU32(v) ==
    CASE v = "Validation" -> u32(0)
      [] v = "Parsing" -> u32(1)
      [] v = "Ocr" -> u32(2)
      [] v = "MissingDependency" -> u32(3)
      [] v = "Io" -> u32(4)
      [] v = "Plugin" -> u32(5)
      [] v = "UnsupportedFormat" -> u32(6)
      [] v = "Internal" -> u32(7)

\* The identifier of each variant as written in the enum, as bytes.
VariantIdent(v) ==
    CASE v = "Validation" -> <<86, 97, 108, 105, 100, 97, 116, 105, 111, 110>>
      [] v = "Parsing" -> <<80, 97, 114, 115, 105, 110, 103>>
      [] v = "Ocr" -> <<79, 99, 114>>
      [] v = "MissingDependency" -> <<77, 105, 115, 115, 105, 110, 103, 68, 101, 112, 101, 110, 100, 101, 110, 99, 121>>
      [] v = "Io" -> <<73, 111>>
      [] v = "Plugin" -> <<80, 108, 117, 103, 105, 110>>
      [] v = "UnsupportedFormat" -> <<85, 110, 115, 117, 112, 112, 111, 114, 116, 101, 100, 70, 111, 114, 109, 97, 116>>
      [] v = "Internal" -> <<73, 110, 116, 101, 114, 110, 97, 108>>

\* ---------------------------------------------------------------- string literals

\* "validation"
N_validation ==
    <<118, 97, 108, 105, 100, 97, 116, 105, 111, 110>>

\* "parsing"
N_parsing ==
    <<112, 97, 114, 115, 105, 110, 103>>

\* "ocr"
N_ocr ==
    <<111, 99, 114>>

\* "missing_dependency"
N_missing_dependency ==
    <<109, 105, 115, 115, 105, 110, 103, 95, 100, 101, 112, 101, 110, 100, 101, 110, 99, 121>>

\* "io"
N_io ==
    <<105, 111>>

\* "plugin"
N_plugin ==
    <<112, 108, 117, 103, 105, 110>>

\* "unsupported_format"
N_unsupported_format ==
    <<117, 110, 115, 117, 112, 112, 111, 114, 116, 101, 100, 95, 102, 111, 114, 109, 97, 116>>

\* "internal"
N_internal ==
    <<105, 110, 116, 101, 114, 110, 97, 108>>

\* "Input validation error"
D_Input_validation_error ==
    <<73, 110, 112, 117, 116, 32, 118, 97, 108, 105, 100, 97, 116, 105, 111, 110, 32, 101,
    114, 114, 111, 114>>

\* "Document parsing error"
D_Document_parsing_error ==
    <<68, 111, 99, 117, 109, 101, 110, 116, 32, 112, 97, 114, 115, 105, 110, 103, 32, 101,
    114, 114, 111, 114>>

\* "OCR processing error"
D_OCR_processing_error ==
    <<79, 67, 82, 32, 112, 114, 111, 99, 101, 115, 115, 105, 110, 103, 32, 101, 114, 114, 111,
    114>>

\* "Missing system dependency"
D_Missing_system_dependency ==
    <<77, 105, 115, 115, 105, 110, 103, 32, 115, 121, 115, 116, 101, 109, 32, 100, 101, 112,
    101, 110, 100, 101, 110, 99, 121>>

\* "File system I/O error"
D_File_system_I_O_error ==
    <<70, 105, 108, 101, 32, 115, 121, 115, 116, 101, 109, 32, 73, 47, 79, 32, 101, 114, 114,
    111, 114>>

\* "Plugin error"
D_Plugin_error ==
    <<80, 108, 117, 103, 105, 110, 32, 101, 114, 114, 111, 114>>

\* "Unsupported format"
D_Unsupported_format ==
    <<85, 110, 115, 117, 112, 112, 111, 114, 116, 101, 100, 32, 102, 111, 114, 109, 97, 116>>

\* "Internal library error"
D_Internal_library_error ==
    <<73, 110, 116, 101, 114, 110, 97, 108, 32, 108, 105, 98, 114, 97, 114, 121, 32, 101, 114,
    114, 111, 114>>

\* "unknown"
F_unknown ==
    <<117, 110, 107, 110, 111, 119, 110>>

\* "Unknown error code"
F_Unknown_error_code ==
    <<85, 110, 107, 110, 111, 119, 110, 32, 101, 114, 114, 111, 114, 32, 99, 111, 100, 101>>

\* The string literals of the module in source order, one static allocation each.
\* The address of an allocation is its index; 0 is the null pointer.
StaticData ==
    <<N_validation, N_parsing, N_ocr, N_missing_dependency,
      N_io, N_plugin, N_unsupported_format, N_internal,
      D_Input_validation_error, D_Document_parsing_error, D_OCR_processing_error, D_Missing_system_dependency,
      D_File_system_I_O_error, D_Plugin_error, D_Unsupported_format, D_Internal_library_error,
      F_unknown, F_Unknown_error_code>>
\* ---------------------------------------------------------------- values
\* A &'static str naming the static allocation that holds `bytes`.
Literal(bytes) ==
    [ptr |-> CHOOSE a \in DOMAIN StaticData : StaticData[a] = bytes,
     len |-> Len(bytes)]

\* str::as_ptr: the address of the first byte; the length is dropped.
as_ptr(s) == s.ptr

\* Option<ErrorCode>
Some(v) == [tag |-> "some", v |-> v]

None == [tag |-> "none"]

\* Tagged argument and return values of a call.
Unit == [tag |-> "unit"]

U32(n) == [tag |-> "u32", n |-> n]

Bool(b) == [tag |-> "bool", b |-> b]

Variant(v) == [tag |-> "variant", v |-> v]

Str(s) == [tag |-> "str", ptr |-> s.ptr, len |-> s.len]

CharPtr(p) == [tag |-> "ptr", ptr |-> p]

\* ---------------------------------------------------------------- impl ErrorCode
\* name with the literal of Internal pasted into the arm of Io.
name_duplicated(self) ==
    CASE self = "Validation" -> Literal(N_validation)
      [] self = "Parsing" -> Literal(N_parsing)
      [] self = "Ocr" -> Literal(N_ocr)
      [] self = "MissingDependency" -> Literal(N_missing_dependency)
      [] self = "Io" -> Literal(N_internal)
      [] self = "Plugin" -> Literal(N_plugin)
      [] self = "UnsupportedFormat" -> Literal(N_unsupported_format)
      [] self = "Internal" -> Literal(N_internal)

\* name with the literals of Parsing and Plugin exchanged.
name_exchanged(self) ==
    CASE self = "Validation" -> Literal(N_validation)
      [] self = "Parsing" -> Literal(N_plugin)
      [] self = "Ocr" -> Literal(N_ocr)
      [] self = "MissingDependency" -> Literal(N_missing_dependency)
      [] self = "Io" -> Literal(N_io)
      [] self = "Plugin" -> Literal(N_parsing)
      [] self = "UnsupportedFormat" -> Literal(N_unsupported_format)
      [] self = "Internal" -> Literal(N_internal)

name(self) ==
    CASE self = "Validation" -> Literal(N_validation)
      [] self = "Parsing" -> Literal(N_parsing)
      [] self = "Ocr" -> Literal(N_ocr)
      [] self = "MissingDependency" -> Literal(N_missing_dependency)
      [] self = "Io" -> Literal(N_io)
      [] self = "Plugin" -> Literal(N_plugin)
      [] self = "UnsupportedFormat" -> Literal(N_unsupported_format)
      [] self = "Internal" -> Literal(N_internal)

description(self) ==
    CASE self = "Validation" -> Literal(D_Input_validation_error)
      [] self = "Parsing" -> Literal(D_Document_parsing_error)
      [] self = "Ocr" -> Literal(D_OCR_processing_error)
      [] self = "MissingDependency" -> Literal(D_Missing_system_dependency)
      [] self = "Io" -> Literal(D_File_system_I_O_error)
      [] self = "Plugin" -> Literal(D_Plugin_error)
      [] self = "UnsupportedFormat" -> Literal(D_Unsupported_format)
      [] self = "Internal" -> Literal(D_Internal_library_error)

\* from_code without the arm for 7.
from_code_short(code) ==
    CASE code = u32(0) -> Some("Validation")
      [] code = u32(1) -> Some("Parsing")
      [] code = u32(2) -> Some("Ocr")
      [] code = u32(3) -> Some("MissingDependency")
      [] code = u32(4) -> Some("Io")
      [] code = u32(5) -> Some("Plugin")
      [] code = u32(6) -> Some("UnsupportedFormat")
      [] OTHER -> None

from_code(code) ==
    CASE code = u32(0) -> Some("Validation")
      [] code = u32(1) -> Some("Parsing")
      [] code = u32(2) -> Some("Ocr")
      [] code = u32(3) -> Some("MissingDependency")
      [] code = u32(4) -> Some("Io")
      [] code = u32(5) -> Some("Plugin")
      [] code = u32(6) -> Some("UnsupportedFormat")
      [] code = u32(7) -> Some("Internal")
      [] OTHER -> None

\* is_valid with < for <=.
is_valid_strict(code) == u32_lt(code, u32(7))

is_valid(code) == u32_le(code, u32(7))

\* ---------------------------------------------------------------- extern "C" exports
kreuzberg_error_code_validation == AsU32("Validation")

kreuzberg_error_code_parsing == AsU32("Parsing")

kreuzberg_error_code_ocr == AsU32("Ocr")

kreuzberg_error_code_missing_dependency == AsU32("MissingDependency")

kreuzberg_error_code_io == AsU32("Io")

kreuzberg_error_code_plugin == AsU32("Plugin")

kreuzberg_error_code_unsupported_format == AsU32("UnsupportedFormat")

kreuzberg_error_code_internal == AsU32("Internal")

\* The count left at 7, as before the last variant was added.
kreuzberg_error_code_count_stale == u32(7)

kreuzberg_error_code_count == u32(8)

\* kreuzberg_error_code_name answering through one slot shared by all callers: while
\* another caller holds a result, the slot is taken and the fallback is handed out.
kreuzberg_error_code_name_shared(code) ==
    LET r == from_code(code)
    IN  IF r.tag = "some" /\ Cardinality({c \in Callers : call[c].op # "none"}) = 0
        THEN as_ptr(name(r.v))
        ELSE as_ptr(Literal(F_unknown))

kreuzberg_error_code_name(code) ==
    LET r == from_code(code)
    IN  IF r.tag = "some" THEN as_ptr(name(r.v)) ELSE as_ptr(Literal(F_unknown))

kreuzberg_error_code_description(code) ==
    LET r == from_code(code)
    IN  IF r.tag = "some" THEN as_ptr(description(r.v))
        ELSE as_ptr(Literal(F_Unknown_error_code))

\* ---------------------------------------------------------------- observations
NoCall == [op |-> "none", arg |-> Unit]

NoText == [read |-> FALSE, bytes |-> <<>>, ended |-> "unread"]

\* The contents of a &'static str.
Deref(s) == SubSeq(rodata[s.ptr], 1, s.len)

\* ---------------------------------------------------------------- the C reader
\* Index of the first zero byte of `bytes`, 0 when it holds none.
FirstZero(bytes) ==
    IF \E i \in 1..Len(bytes) : bytes[i] = 0
    THEN CHOOSE i \in 1..Len(bytes) :
             bytes[i] = 0 /\ \A j \in 1..(i - 1) : bytes[j] # 0
    ELSE 0

\* What the byte just past the end of an allocation may turn out to be: a zero byte
\* ("at_end"), or a byte of something else, after which the scan runs on ("past_end").
PastTheEnd == {"at_end", "past_end"}

\* CStr::from_ptr(p) / strlen(p): the bytes from p up to the first zero byte.
\* `bytes` are the bytes read inside the allocation p points into; `ended` tells where
\* the scan met its zero byte: "inside" the allocation, or as `outcome` says.
CStrFromPtr(p, outcome) ==
    LET a == rodata[p]
        z == FirstZero(a)
    IN  IF z > 0
        THEN [read |-> TRUE, bytes |-> SubSeq(a, 1, z - 1), ended |-> "inside"]
        ELSE [read |-> TRUE, bytes |-> a, ended |-> outcome]

\* ---------------------------------------------------------------- actions
Init ==
    /\ rodata = StaticData
    /\ input \in {U32(code) : code \in CodeInputs} \cup {Variant(v) : v \in ErrorCode}
    /\ call = [c \in Callers |-> NoCall]
    /\ ret = [c \in Callers |-> Unit]
    /\ text = [c \in Callers |-> NoText]

\* Caller c holds no result and may make a call.
Ready(c) == call[c] = NoCall

\* Caller c has called op with arg and got v back.
Returned(c, op, arg, v) ==
    /\ call' = [call EXCEPT ![c] = [op |-> op, arg |-> arg]]
    /\ ret' = [ret EXCEPT ![c] = v]
    /\ UNCHANGED <<rodata, input, text>>

Call_name(c) ==
    /\ Ready(c)
    /\ input.tag = "variant"
    /\ Returned(c, "name", input, Str(name(input.v)))

Call_description(c) ==
    /\ Ready(c)
    /\ input.tag = "variant"
    /\ Returned(c, "description", input, Str(description(input.v)))

Call_from_code(c) ==
    /\ Ready(c)
    /\ input.tag = "u32"
    /\ Returned(c, "from_code", input, from_code(input.n))

Call_is_valid(c) ==
    /\ Ready(c)
    /\ input.tag = "u32"
    /\ Returned(c, "is_valid", input, Bool(is_valid(input.n)))

Call_error_code_validation(c) ==
    /\ Ready(c)
    /\ Returned(c, "kreuzberg_error_code_validation", Unit,
                U32(kreuzberg_error_code_validation))

Call_error_code_parsing(c) ==
    /\ Ready(c)
    /\ Returned(c, "kreuzberg_error_code_parsing", Unit,
                U32(kreuzberg_error_code_parsing))

Call_error_code_ocr(c) ==
    /\ Ready(c)
    /\ Returned(c, "kreuzberg_error_code_ocr", Unit, U32(kreuzberg_error_code_ocr))

Call_error_code_missing_dependency(c) ==
    /\ Ready(c)
    /\ Returned(c, "kreuzberg_error_code_missing_dependency", Unit,
                U32(kreuzberg_error_code_missing_dependency))

Call_error_code_io(c) ==
    /\ Ready(c)
    /\ Returned(c, "kreuzberg_error_code_io", Unit, U32(kreuzberg_error_code_io))

Call_error_code_plugin(c) ==
    /\ Ready(c)
    /\ Returned(c, "kreuzberg_error_code_plugin", Unit,
                U32(kreuzberg_error_code_plugin))

Call_error_code_unsupported_format(c) ==
    /\ Ready(c)
    /\ Returned(c, "kreuzberg_error_code_unsupported_format", Unit,
                U32(kreuzberg_error_code_unsupported_format))

Call_error_code_internal(c) ==
    /\ Ready(c)
    /\ Returned(c, "kreuzberg_error_code_internal", Unit,
                U32(kreuzberg_error_code_internal))

Call_error_code_count(c) ==
    /\ Ready(c)
    /\ Returned(c, "kreuzberg_error_code_count", Unit,
                U32(kreuzberg_error_code_count))

Call_error_code_name(c) ==
    /\ Ready(c)
    /\ input.tag = "u32"
    /\ Returned(c, "kreuzberg_error_code_name", input,
                CharPtr(kreuzberg_error_code_name(input.n)))

Call_error_code_description(c) ==
    /\ Ready(c)
    /\ input.tag = "u32"
    /\ Returned(c, "kreuzberg_error_code_description", input,
                CharPtr(kreuzberg_error_code_description(input.n)))

\* Caller c reads the const char* it was handed as a C string.
ReadCString(c) ==
    /\ ret[c].tag = "ptr"
    /\ ~text[c].read
    /\ \E outcome \in PastTheEnd :
           text' = [text EXCEPT ![c] = CStrFromPtr(ret[c].ptr, outcome)]
    /\ UNCHANGED <<rodata, input, call, ret>>

\* Caller c is done with the result of its last call.
Discard(c) ==
    /\ ~Ready(c)
    /\ call' = [call EXCEPT ![c] = NoCall]
    /\ ret' = [ret EXCEPT ![c] = Unit]
    /\ text' = [text EXCEPT ![c] = NoText]
    /\ UNCHANGED <<rodata, input>>

Step(c) ==
    \/ Call_name(c)
    \/ Call_description(c)
    \/ Call_from_code(c)
    \/ Call_is_valid(c)
    \/ Call_error_code_validation(c)
    \/ Call_error_code_parsing(c)
    \/ Call_error_code_ocr(c)
    \/ Call_error_code_missing_dependency(c)
    \/ Call_error_code_io(c)
    \/ Call_error_code_plugin(c)
    \/ Call_error_code_unsupported_format(c)
    \/ Call_error_code_internal(c)
    \/ Call_error_code_count(c)
    \/ Call_error_code_name(c)
    \/ Call_error_code_description(c)
    \/ ReadCString(c)
    \/ Discard(c)

Next == \E c \in Callers : Step(c)

Spec == Init /\ [][Next]_vars


\* ================================================================ properties
\* The codes the enum defines, 0..7, as u32 values.
ValidCodes == {u32(k) : k \in 0..7}

\* Caller c holds the result of a call of op.
Made(c, op) == call[c].op = op

\* The value of a small u32 as a natural number.
u32_to_nat(x) == x.hi * 2^16 + x.lo

\* Reading t gave exactly the string s: no byte of anything else was taken for text.
IsText(t, s) == t.read /\ t.bytes = s /\ t.ended # "past_end"

IsUpper(b) == b \in 65..90

\* ASCII lowercase of a byte string.
ToLower(s) == [i \in 1..Len(s) |-> IF IsUpper(s[i]) THEN s[i] + 32 ELSE s[i]]

\* snake_case of a CamelCase identifier: every uppercase letter is lowered, and an
\* underscore (95) is put before each one that is not the first byte.
RECURSIVE ToSnake(_)
ToSnake(s) ==
    IF s = <<>> THEN <<>>
    ELSE LET n == Len(s)
             front == ToSnake(SubSeq(s, 1, n - 1))
         IN  IF IsUpper(s[n])
             THEN (IF n > 1 THEN front \o <<95>> ELSE front) \o <<s[n] + 32>>
             ELSE front \o <<s[n]>>

\* ---------------------------------------------------------------- C1
\* C1: each variant is bound to its integer (Validation=0 .. Internal=7), and each of
\* the eight kreuzberg_error_code_<variant>() functions returns the integer of its
\* variant, on every call by every caller.
C1_AccessorsReturnCodes ==
    /\ {AsU32(v) : v \in ErrorCode} = ValidCodes
    /\ \A c \in Callers :
        /\ Made(c, "kreuzberg_error_code_validation") =>
               ret[c] = U32(u32(0)) /\ ret[c].n = AsU32("Validation")
        /\ Made(c, "kreuzberg_error_code_parsing") =>
               ret[c] = U32(u32(1)) /\ ret[c].n = AsU32("Parsing")
        /\ Made(c, "kreuzberg_error_code_ocr") =>
               ret[c] = U32(u32(2)) /\ ret[c].n = AsU32("Ocr")
        /\ Made(c, "kreuzberg_error_code_missing_dependency") =>
               ret[c] = U32(u32(3)) /\ ret[c].n = AsU32("MissingDependency")
        /\ Made(c, "kreuzberg_error_code_io") =>
               ret[c] = U32(u32(4)) /\ ret[c].n = AsU32("Io")
        /\ Made(c, "kreuzberg_error_code_plugin") =>
               ret[c] = U32(u32(5)) /\ ret[c].n = AsU32("Plugin")
        /\ Made(c, "kreuzberg_error_code_unsupported_format") =>
               ret[c] = U32(u32(6)) /\ ret[c].n = AsU32("UnsupportedFormat")
        /\ Made(c, "kreuzberg_error_code_internal") =>
               ret[c] = U32(u32(7)) /\ ret[c].n = AsU32("Internal")

\* Two callers hold the results of kreuzberg_error_code_plugin() and
\* kreuzberg_error_code_io().
C1_Witness ==
    \E c, d \in Callers :
        /\ Made(c, "kreuzberg_error_code_plugin") /\ ret[c] = U32(u32(5))
        /\ Made(d, "kreuzberg_error_code_io") /\ ret[d] = U32(u32(4))

\* ---------------------------------------------------------------- C2
\* C2: for every n in 0..7, from_code(n) is present and the integer of the variant it
\* returns is n (so the variant returned is the one variant whose integer is n).
C2_FromCodeRoundTrip ==
    \A c \in Callers :
        Made(c, "from_code") /\ call[c].arg.n \in ValidCodes =>
            /\ ret[c].tag = "some"
            /\ AsU32(ret[c].v) = call[c].arg.n
            /\ \A v \in ErrorCode : AsU32(v) = call[c].arg.n => ret[c] = Some(v)

\* A caller holds from_code(7) = Some(Internal).
C2_Witness ==
    \E c \in Callers :
        Made(c, "from_code") /\ call[c].arg.n = u32(7) /\ ret[c] = Some("Internal")

\* ---------------------------------------------------------------- C3
\* C3: for n outside 0..7 (8, 99, u32::MAX) from_code(n) is absent and is_valid(n) is
\* false; for n in 0..7 is_valid(n) is true; is_valid(n) holds exactly when from_code(n)
\* is present; and both can be called on every input.
C3_InvalidCodesRejected ==
    \A c \in Callers :
        /\ Made(c, "from_code") /\ call[c].arg.n \notin ValidCodes => ret[c] = None
        /\ Made(c, "is_valid") => ret[c] = Bool(call[c].arg.n \in ValidCodes)
        /\ \A d \in Callers :
               Made(c, "is_valid") /\ Made(d, "from_code") /\ call[c].arg = call[d].arg =>
                   (ret[c].b <=> ret[d].tag = "some")
        /\ Ready(c) /\ input.tag = "u32" =>
               ENABLED Call_from_code(c) /\ ENABLED Call_is_valid(c)

\* One caller holds is_valid(u32::MAX) = false, another from_code(u32::MAX) = None.
C3_Witness ==
    \E c, d \in Callers :
        /\ Made(c, "is_valid") /\ call[c].arg.n = U32_MAX /\ ret[c] = Bool(FALSE)
        /\ Made(d, "from_code") /\ call[d].arg.n = U32_MAX /\ ret[d] = None

\* ---------------------------------------------------------------- C4
\* C4: for every n outside 0..7 the string a caller gets from kreuzberg_error_code_name(n)
\* is "unknown" and from kreuzberg_error_code_description(n) is "Unknown error code",
\* never null or empty.
C4_FallbackStrings ==
    \A c \in Callers :
        text[c].read /\ call[c].arg.n \notin ValidCodes =>
            /\ ret[c].ptr # 0
            /\ text[c].bytes # <<>>
            /\ Made(c, "kreuzberg_error_code_name") => IsText(text[c], F_unknown)
            /\ Made(c, "kreuzberg_error_code_description") =>
                   IsText(text[c], F_Unknown_error_code)

\* ---------------------------------------------------------------- C5
\* C5: for every n, the pointer returned by kreuzberg_error_code_name(n) and
\* kreuzberg_error_code_description(n) points to null-terminated text: a reader that
\* scans to the first zero byte reads exactly the name, description or fallback and
\* never leaves the storage of the string.
C5_NullTerminated ==
    \A c \in Callers :
        text[c].read =>
            /\ text[c].ended = "inside"
            /\ LET r == from_code(call[c].arg.n)
               IN  /\ Made(c, "kreuzberg_error_code_name") =>
                          text[c].bytes = (IF r.tag = "some" THEN Deref(name(r.v))
                                           ELSE F_unknown)
                   /\ Made(c, "kreuzberg_error_code_description") =>
                          text[c].bytes = (IF r.tag = "some" THEN Deref(description(r.v))
                                           ELSE F_Unknown_error_code)

\* ---------------------------------------------------------------- C6
\* C6: for every n in 0..7 the text read from kreuzberg_error_code_name(n) equals
\* from_code(n).name() and the text read from kreuzberg_error_code_description(n) equals
\* from_code(n).description().
C6_BoundaryAgreesWithTyped ==
    \A c \in Callers :
        text[c].read /\ call[c].arg.n \in ValidCodes =>
            /\ Made(c, "kreuzberg_error_code_name") =>
                   IsText(text[c], Deref(name(from_code(call[c].arg.n).v)))
            /\ Made(c, "kreuzberg_error_code_description") =>
                   IsText(text[c], Deref(description(from_code(call[c].arg.n).v)))

\* ---------------------------------------------------------------- C7
\* C7: name and description are defined on all 8 variants, and the name (description) a
\* variant returns is non-empty and differs from the name (description) of every other
\* variant.
C7_NamesUnique ==
    \A c \in Callers :
        /\ Made(c, "name") =>
               /\ Len(Deref(ret[c])) > 0
               /\ \A w \in ErrorCode \ {call[c].arg.v} :
                      Deref(name(w)) # Deref(ret[c])
        /\ Made(c, "description") =>
               /\ Len(Deref(ret[c])) > 0
               /\ \A w \in ErrorCode \ {call[c].arg.v} :
                      Deref(description(w)) # Deref(ret[c])
        /\ Ready(c) /\ input.tag = "variant" =>
               ENABLED Call_name(c) /\ ENABLED Call_description(c)

\* One caller holds Io.name() = "io", another Io.description() = "File system I/O error".
C7_Witness ==
    \E c, d \in Callers :
        /\ Made(c, "name") /\ call[c].arg.v = "Io" /\ Deref(ret[c]) = N_io
        /\ Made(d, "description") /\ call[d].arg.v = "Io"
        /\ Deref(ret[d]) = D_File_system_I_O_error

\* ---------------------------------------------------------------- C8
\* C8: kreuzberg_error_code_count() returns 8, which is the number of variants, of
\* inputs is_valid accepts and of variants from_code returns; and is_valid(n) holds
\* exactly when n < count().
C8_CountMatches ==
    \A c \in Callers :
        Made(c, "kreuzberg_error_code_count") =>
            /\ ret[c] = U32(u32(8))
            /\ u32_to_nat(ret[c].n) = Cardinality(ErrorCode)
            /\ u32_to_nat(ret[c].n) = Cardinality({n \in CodeInputs : is_valid(n)})
            /\ u32_to_nat(ret[c].n) =
                   Cardinality({from_code(n).v : n \in {m \in CodeInputs :
                                                          from_code(m).tag = "some"}})
            /\ \A d \in Callers :
                   Made(d, "is_valid") =>
                       (ret[d].b <=> u32_lt(call[d].arg.n, ret[c].n))

\* One caller holds count() = 8 while another holds is_valid(8) = false.
C8_Witness ==
    \E c, d \in Callers :
        /\ Made(c, "kreuzberg_error_code_count") /\ ret[c] = U32(u32(8))
        /\ Made(d, "is_valid") /\ call[d].arg.n = u32(8) /\ ret[d] = Bool(FALSE)

\* ---------------------------------------------------------------- C9
\* Two callers that made the same call with the same argument hold the same result,
\* whatever else was called before or in between.
SameCallSameResult ==
    \A c, d \in Callers : call[c] = call[d] => ret[c] = ret[d]

\* No caller ever waits for another: whatever the others hold, a caller can take its
\* next step, and a caller without a result can make every call its input allows.
NeverBlocked ==
    \A c \in Callers :
        /\ ENABLED Step(c)
        /\ Ready(c) =>
               /\ ENABLED Call_error_code_count(c)
               /\ ENABLED Call_error_code_internal(c)
               /\ input.tag = "u32" =>
                      /\ ENABLED Call_from_code(c)
                      /\ ENABLED Call_is_valid(c)
                      /\ ENABLED Call_error_code_name(c)
                      /\ ENABLED Call_error_code_description(c)
               /\ input.tag = "variant" =>
                      ENABLED Call_name(c) /\ ENABLED Call_description(c)

\* A step changes what at most one caller holds, and never the static memory.
OneCallerPerStep ==
    /\ rodata' = rodata
    /\ \A c, d \in Callers :
           c # d /\ <<call[c], ret[c], text[c]>>' # <<call[c], ret[c], text[c]>> =>
               <<call[d], ret[d], text[d]>>' = <<call[d], ret[d], text[d]>>

\* C9: all operations are pure and safe under concurrency: for any interleaving of the
\* callers' calls, every call completes without waiting, no call changes what another
\* caller observes, and a call's result depends only on its own argument.
C9_PureUnderConcurrency ==
    /\ [](SameCallSameResult /\ NeverBlocked)
    /\ [][OneCallerPerStep]_vars

\* Two callers hold the result of kreuzberg_error_code_name(2), and it is the same pointer.
C9_Witness ==
    \E c, d \in Callers :
        /\ c # d
        /\ Made(c, "kreuzberg_error_code_name") /\ Made(d, "kreuzberg_error_code_name")
        /\ call[c].arg.n = u32(2) /\ call[d].arg.n = u32(2)
        /\ ret[c] = ret[d]
        /\ ret[c].ptr = as_ptr(Literal(N_ocr))

====
